---- MODULE Spec2Model ----
(***************************************************************************)
(* The workflow pipeline of msk_modelling_python/workflow.py:               *)
(* WorkflowNode objects, the Pipeline that registers and connects them,    *)
(* and the recursive depth-first execution Pipeline.execute /              *)
(* Pipeline._execute_node, modelled with an explicit call stack.           *)
(***************************************************************************)
EXTENDS Integers, Sequences, FiniteSets, TLC

VARIABLES
    heap,             \* the WorkflowNode objects, by identity: heap[o] is object o
    nodes,            \* Pipeline.nodes: name -> object
    start_node,       \* Pipeline.start_node: an object, or None
    context,          \* Pipeline.context
    execution_log,    \* Pipeline.execution_log
    status,           \* Pipeline.status
    initial_context,  \* the caller's dict handed to execute, as the caller sees it
    aliased,          \* Pipeline.context is the caller's dict object itself
    stop_on_error,    \* the stop_on_error argument of the running execute call
    stack,            \* the _execute_node activations, innermost last
    exc,              \* an exception is propagating out of the innermost activation's callee
    calls,            \* the task invocations made by the current execute call, in order
    runs,             \* number of execute calls that passed the start-node check
    last,             \* the caller's last API call and the exception it raised
    added             \* of the add_node calls so far: the first node, the last is_start node

vars == <<heap, nodes, start_node, context, execution_log, status,
          initial_context, aliased, stop_on_error, stack, exc, calls, runs, last, added>>

pipelineVars == <<nodes, start_node, context, execution_log, status>>
runVars == <<initial_context, aliased, stop_on_error, stack, exc, calls, runs>>

----------------------------------------------------------------------------
(* Bounds of the model *)

MaxEdges == 4      \* connections made by a caller of the general specification
MaxRuns == 2       \* execute calls on one pipeline
MaxObjs == 3       \* WorkflowNode objects made by a caller that reuses names
MaxDupEdges == 2   \* connections made by a caller that reuses names
MaxTasks == 3      \* tasks in the list handed to create_simple_pipeline
MaxDepth == 5      \* frames of _execute_node the interpreter's stack can hold

----------------------------------------------------------------------------
(* Python values *)

None == 0

EmptyDict == [k \in {} |-> 0]

\* dict.update / {**d, **e}: the keys of e overwrite those of d
Update(d, e) ==
    [k \in (DOMAIN d) \cup (DOMAIN e) |-> IF k \in DOMAIN e THEN e[k] ELSE d[k]]

Restrict(d, ks) == [k \in (DOMAIN d) \cap ks |-> d[k]]

Range(s) == {s[i] : i \in 1..Len(s)}

----------------------------------------------------------------------------
(* The task functions: the callables the tests hand to WorkflowNode, and an *)
(* opaque task that may return or raise.                                    *)

ReturnDict(d) == [kind |-> "dict", dict |-> d, other |-> 0]
ReturnOther(v) == [kind |-> "other", dict |-> EmptyDict, other |-> v]
Raise == [kind |-> "raise", dict |-> EmptyDict, other |-> 0]

\* inspect.signature(function).parameters, in declaration order
Parameters(function) ==
    CASE function = "step1" -> <<"x">>
      [] function = "step2" -> <<"y">>
      [] function = "step3" -> <<"z">>
      [] function = "start" -> <<"value">>
      [] function = "branch_a" -> <<"data">>
      [] function = "branch_b" -> <<"data">>
      [] function = "merge" -> <<"result_a", "result_b">>
      [] function = "step2_fails" -> <<"value">>
      [] function = "test_parameter_filtering.step1" -> <<>>
      [] function = "test_parameter_filtering.step2" -> <<"a", "b">>
      [] OTHER -> <<>>

\* the parameters that have a default value
Defaults(function) == {}

\* the body of the task, called with every required parameter bound
Body(function, a) ==
    CASE function = "step1" -> {ReturnDict([k \in {"y"} |-> a["x"] + 1])}
      [] function = "step2" -> {ReturnDict([k \in {"z"} |-> a["y"] * 2])}
      [] function = "step3" -> {ReturnDict([k \in {"result"} |-> a["z"] * a["z"]])}
      [] function = "start" -> {ReturnDict([k \in {"data"} |-> a["value"]])}
      [] function = "branch_a" -> {ReturnDict([k \in {"result_a"} |-> a["data"] + 10])}
      [] function = "branch_b" -> {ReturnDict([k \in {"result_b"} |-> a["data"] * 2])}
      [] function = "merge" ->
            {ReturnDict([k \in {"final"} |-> a["result_a"] + a["result_b"]])}
      [] function = "step2_fails" -> {Raise}
      [] function = "test_parameter_filtering.step1" ->
            {ReturnDict([k \in {"a", "b", "c", "d"} |->
                CASE k = "a" -> 1 [] k = "b" -> 2 [] k = "c" -> 3 [] k = "d" -> 4])}
      [] function = "test_parameter_filtering.step2" ->
            {ReturnDict([k \in {"result"} |-> a["a"] + a["b"]])}
      [] function = "task" -> {ReturnDict(EmptyDict), Raise}
      [] function = "returns_value" -> {ReturnOther(None), ReturnOther(7)}
      [] function = "returns_mapping" ->
            {ReturnDict(EmptyDict), ReturnDict([k \in {"k"} |-> 1]),
             ReturnDict([k \in {"result"} |-> 2])}
      [] OTHER -> {Raise}

\* a call with a required parameter left unbound returns an empty dict
CallFunction_IgnoresUnbound(function, filtered_inputs) ==
    IF function = "None"
    THEN {Raise}
    ELSE IF \E p \in Range(Parameters(function)) :
               p \notin DOMAIN filtered_inputs /\ p \notin Defaults(function)
         THEN {ReturnDict(EmptyDict)}
         ELSE Body(function, filtered_inputs)

\* inspect.signature(function) and function(**filtered_inputs): a function that
\* is None has no signature, a required parameter left unbound is a TypeError
CallFunction(function, filtered_inputs) ==
    IF \/ function = "None"
       \/ \E p \in Range(Parameters(function)) :
             p \notin DOMAIN filtered_inputs /\ p \notin Defaults(function)
    THEN {Raise}
    ELSE Body(function, filtered_inputs)

----------------------------------------------------------------------------
(* WorkflowNode *)

\* WorkflowNode.__init__
WorkflowNode(name, function, inputs) ==
    [name |-> name, function |-> function, inputs |-> inputs,
     outputs |-> EmptyDict, status |-> "pending", error |-> "None",
     start_time |-> FALSE, end_time |-> FALSE, next_nodes |-> <<>>]

\* connect_to without the membership test
connect_to_Append(self, node) ==
    Append(heap[self].next_nodes, node)

\* WorkflowNode.connect_to: the successor list of self afterwards
connect_to(self, node) ==
    IF node \notin Range(heap[self].next_nodes)
    THEN Append(heap[self].next_nodes, node)
    ELSE heap[self].next_nodes

\* every key of the context and of the inputs is handed to the function
FilteredInputs_Unfiltered(self, ctx) ==
    Update(ctx, heap[self].inputs)

\* the context overwrites the node's inputs
FilteredInputs_ContextWins(self, ctx) ==
    LET execution_inputs == Update(heap[self].inputs, ctx)
    IN  Restrict(execution_inputs, Range(Parameters(heap[self].function)))

\* WorkflowNode.execute, the inputs handed to the function
FilteredInputs(self, ctx) ==
    LET execution_inputs == Update(ctx, heap[self].inputs)
    IN  Restrict(execution_inputs, Range(Parameters(heap[self].function)))

\* a result that is not a dict is dropped
Outputs_Unwrapped(result) ==
    IF result.kind = "dict" THEN result.dict ELSE EmptyDict

\* WorkflowNode.execute, the outputs made of the function's result
Outputs(result) ==
    IF result.kind = "dict" THEN result.dict ELSE [k \in {"result"} |-> result.other]

\* WorkflowNode.get_execution_time: a duration once both times are set
get_execution_time(self) ==
    IF heap[self].start_time /\ heap[self].end_time THEN "seconds" ELSE "None"

\* WorkflowNode.to_dict
to_dict(self) ==
    [name |-> heap[self].name,
     status |-> heap[self].status,
     execution_time |-> get_execution_time(self),
     error |-> heap[self].error,
     outputs |-> heap[self].outputs]

----------------------------------------------------------------------------
(* Pipeline *)

Idle == stack = <<>> /\ status # "running"

Call(op, args, raised) == [op |-> op, args |-> args, raised |-> raised]

Init ==
    /\ heap = <<>>
    /\ nodes = EmptyDict
    /\ start_node = None
    /\ context = EmptyDict
    /\ execution_log = <<>>
    /\ status = "ready"
    /\ initial_context = EmptyDict
    /\ aliased = FALSE
    /\ stop_on_error = TRUE
    /\ stack = <<>>
    /\ exc = FALSE
    /\ calls = <<>>
    /\ runs = 0
    /\ last = Call("init", <<>>, "None")
    /\ added = [first |-> None, marked |-> None]

\* add_node that sets the start node only when is_start is passed
add_node_OnlyIfMarked(node, name, is_start) ==
    /\ nodes' = Update(nodes, [k \in {name} |-> node])
    /\ start_node' = IF is_start THEN node ELSE start_node

\* Pipeline.add_node: the nodes mapping and the start node afterwards
add_node(node, name, is_start) ==
    /\ nodes' = Update(nodes, [k \in {name} |-> node])
    /\ start_node' = IF is_start \/ start_node = None THEN node ELSE start_node

\* the caller's record of its add_node calls
Added(node, is_start) ==
    [first |-> IF added.first = None THEN node ELSE added.first,
     marked |-> IF is_start THEN node ELSE added.marked]

\* pipeline.add_node(WorkflowNode(name, function, inputs), is_start)
AddNewNode(name, function, inputs, is_start) ==
    /\ Idle
    /\ heap' = Append(heap, WorkflowNode(name, function, inputs))
    /\ add_node(Len(heap) + 1, name, is_start)
    /\ last' = Call("add_node", <<Len(heap) + 1, is_start>>, "None")
    /\ added' = Added(Len(heap) + 1, is_start)
    /\ UNCHANGED <<context, execution_log, status, runVars>>

\* pipeline.add_node(node, is_start) with a node constructed earlier
AddNode(node, is_start) ==
    /\ Idle
    /\ add_node(node, heap[node].name, is_start)
    /\ last' = Call("add_node", <<node, is_start>>, "None")
    /\ added' = Added(node, is_start)
    /\ UNCHANGED <<heap, context, execution_log, status, runVars>>

\* connect with the to_node check lost: an unknown to_node is ignored silently
Connect_ToNodeUnchecked(from_node, to_node) ==
    /\ Idle
    /\ IF from_node \notin DOMAIN nodes
       THEN /\ last' = Call("connect", <<from_node, to_node>>, "ValueError")
            /\ UNCHANGED heap
       ELSE /\ heap' = IF to_node \in DOMAIN nodes
                       THEN [heap EXCEPT ![nodes[from_node]].next_nodes =
                                connect_to(nodes[from_node], nodes[to_node])]
                       ELSE heap
            /\ last' = Call("connect", <<from_node, to_node>>, "None")
    /\ UNCHANGED <<pipelineVars, runVars, added>>

\* Pipeline.connect
Connect(from_node, to_node) ==
    /\ Idle
    /\ IF from_node \notin DOMAIN nodes \/ to_node \notin DOMAIN nodes
       THEN /\ last' = Call("connect", <<from_node, to_node>>, "ValueError")
            /\ UNCHANGED heap
       ELSE /\ heap' = [heap EXCEPT ![nodes[from_node]].next_nodes =
                            connect_to(nodes[from_node], nodes[to_node])]
            /\ last' = Call("connect", <<from_node, to_node>>, "None")
    /\ UNCHANGED <<pipelineVars, runVars, added>>

Frame(node, pc) == [node |-> node, pc |-> pc, i |-> 1]
Top == stack[Len(stack)]
Pop == SubSeq(stack, 1, Len(stack) - 1)
SetTop(f) == [stack EXCEPT ![Len(stack)] = f]

\* execute with the reset of status, context and log moved before the check
Execute_ResetFirst(ictx, soe) ==
    /\ Idle
    /\ status' = "running"
    /\ context' = ictx
    /\ execution_log' = <<>>
    /\ IF start_node = None
       THEN /\ last' = Call("execute", <<>>, "ValueError")
            /\ UNCHANGED <<heap, nodes, start_node, runVars>>
       ELSE /\ runs' = runs + 1
            /\ initial_context' = ictx
            /\ aliased' = (ictx # EmptyDict)
            /\ stop_on_error' = soe
            /\ stack' = <<Frame(start_node, "enter")>>
            /\ exc' = FALSE
            /\ calls' = <<>>
            /\ last' = Call("execute", <<>>, "None")
            /\ UNCHANGED <<heap, nodes, start_node>>
    /\ UNCHANGED added

\* execute that keeps the log and adds the initial context to the old context
Execute_NoReset(ictx, soe) ==
    /\ Idle
    /\ IF start_node = None
       THEN /\ last' = Call("execute", <<>>, "ValueError")
            /\ UNCHANGED <<heap, pipelineVars, runVars>>
       ELSE /\ runs' = runs + 1
            /\ status' = "running"
            /\ context' = Update(context, ictx)
            /\ initial_context' = ictx
            /\ aliased' = FALSE
            /\ stop_on_error' = soe
            /\ stack' = <<Frame(start_node, "enter")>>
            /\ exc' = FALSE
            /\ calls' = <<>>
            /\ last' = Call("execute", <<>>, "None")
            /\ UNCHANGED <<heap, nodes, start_node, execution_log>>
    /\ UNCHANGED added

\* Pipeline.execute, up to the call of _execute_node on the start node
Execute(ictx, soe) ==
    /\ Idle
    /\ IF start_node = None
       THEN /\ last' = Call("execute", <<>>, "ValueError")
            /\ UNCHANGED <<heap, pipelineVars, runVars>>
       ELSE /\ runs' = runs + 1
            /\ status' = "running"
            /\ context' = ictx
            /\ initial_context' = ictx
            /\ aliased' = (ictx # EmptyDict)
            /\ execution_log' = <<>>
            /\ stop_on_error' = soe
            /\ stack' = <<Frame(start_node, "enter")>>
            /\ exc' = FALSE
            /\ calls' = <<>>
            /\ last' = Call("execute", <<>>, "None")
            /\ UNCHANGED <<heap, nodes, start_node>>
    /\ UNCHANGED added

LogEntry(name, st) == [node |-> name, status |-> st]

\* a completed node is skipped but its successors are traversed again
ExecuteNodeEnter_Descends ==
    /\ stack # <<>> /\ Top.pc = "enter"
    /\ IF heap[Top.node].status = "completed"
       THEN /\ stack' = SetTop([Top EXCEPT !.pc = "loop"])
            /\ UNCHANGED heap
       ELSE /\ heap' = [heap EXCEPT ![Top.node].status = "running",
                                    ![Top.node].start_time = TRUE]
            /\ stack' = SetTop([Top EXCEPT !.pc = "call"])
    /\ UNCHANGED <<pipelineVars, initial_context, aliased, stop_on_error, exc,
                   calls, runs, last, added>>

\* _execute_node: the completed check, then WorkflowNode.execute up to the try
ExecuteNodeEnter ==
    /\ stack # <<>> /\ Top.pc = "enter"
    /\ IF heap[Top.node].status = "completed"
       THEN /\ stack' = Pop
            /\ UNCHANGED heap
       ELSE /\ heap' = [heap EXCEPT ![Top.node].status = "running",
                                    ![Top.node].start_time = TRUE]
            /\ stack' = SetTop([Top EXCEPT !.pc = "call"])
    /\ UNCHANGED <<pipelineVars, initial_context, aliased, stop_on_error, exc,
                   calls, runs, last, added>>

\* the outputs are not merged into the context
TaskReturns_NoMerge(result) ==
    LET self == Top.node
        outputs == Outputs(result)
    IN  /\ heap' = [heap EXCEPT ![self].outputs = outputs,
                                ![self].status = "completed",
                                ![self].end_time = TRUE]
        /\ execution_log' = Append(execution_log, LogEntry(heap[self].name, "completed"))
        /\ stack' = SetTop([Top EXCEPT !.pc = "loop"])
        /\ UNCHANGED <<context, initial_context, exc>>

\* the merge keeps the value of a key that the context already has
TaskReturns_KeepsExisting(result) ==
    LET self == Top.node
        outputs == Outputs(result)
    IN  /\ heap' = [heap EXCEPT ![self].outputs = outputs,
                                ![self].status = "completed",
                                ![self].end_time = TRUE]
        /\ context' = Update(outputs, context)
        /\ initial_context' = IF aliased THEN context' ELSE initial_context
        /\ execution_log' = Append(execution_log, LogEntry(heap[self].name, "completed"))
        /\ stack' = SetTop([Top EXCEPT !.pc = "loop"])
        /\ UNCHANGED exc

\* the node's static inputs are merged into the context along with the outputs
TaskReturns_LeaksInputs(result) ==
    LET self == Top.node
        outputs == Outputs(result)
    IN  /\ heap' = [heap EXCEPT ![self].outputs = outputs,
                                ![self].status = "completed",
                                ![self].end_time = TRUE]
        /\ context' = Update(Update(context, heap[self].inputs), outputs)
        /\ initial_context' = IF aliased THEN context' ELSE initial_context
        /\ execution_log' = Append(execution_log, LogEntry(heap[self].name, "completed"))
        /\ stack' = SetTop([Top EXCEPT !.pc = "loop"])
        /\ UNCHANGED exc

\* WorkflowNode.execute: the task returns; _execute_node merges and logs
TaskReturns(result) ==
    LET self == Top.node
        outputs == Outputs(result)
    IN  /\ heap' = [heap EXCEPT ![self].outputs = outputs,
                                ![self].status = "completed",
                                ![self].end_time = TRUE]
        /\ context' = Update(context, outputs)
        /\ initial_context' = IF aliased THEN context' ELSE initial_context
        /\ execution_log' = Append(execution_log, LogEntry(heap[self].name, "completed"))
        /\ stack' = SetTop([Top EXCEPT !.pc = "loop"])
        /\ UNCHANGED exc

\* the failure is never re-raised, whatever stop_on_error
TaskRaises_Swallowed ==
    LET self == Top.node
    IN  /\ heap' = [heap EXCEPT ![self].status = "failed",
                                ![self].error = "error",
                                ![self].end_time = TRUE]
        /\ execution_log' = Append(execution_log, LogEntry(heap[self].name, "failed"))
        /\ stack' = Pop
        /\ exc' = FALSE
        /\ UNCHANGED <<context, initial_context>>

\* with stop_on_error false, the loop over next_nodes runs after the failure too
TaskRaises_Descends ==
    LET self == Top.node
    IN  /\ heap' = [heap EXCEPT ![self].status = "failed",
                                ![self].error = "error",
                                ![self].end_time = TRUE]
        /\ execution_log' = Append(execution_log, LogEntry(heap[self].name, "failed"))
        /\ stack' = IF stop_on_error THEN Pop ELSE SetTop([Top EXCEPT !.pc = "loop"])
        /\ exc' = stop_on_error
        /\ UNCHANGED <<context, initial_context>>

\* the failure is written to the node's outputs and merged into the context
TaskRaises_WritesOutputs ==
    LET self == Top.node
        outputs == [k \in {"error"} |-> 1]
    IN  /\ heap' = [heap EXCEPT ![self].status = "failed",
                                ![self].error = "error",
                                ![self].outputs = outputs,
                                ![self].end_time = TRUE]
        /\ context' = Update(context, outputs)
        /\ initial_context' = IF aliased THEN context' ELSE initial_context
        /\ execution_log' = Append(execution_log, LogEntry(heap[self].name, "failed"))
        /\ stack' = Pop
        /\ exc' = stop_on_error

\* WorkflowNode.execute: the task raises; _execute_node logs and re-raises or not
TaskRaises ==
    LET self == Top.node
    IN  /\ heap' = [heap EXCEPT ![self].status = "failed",
                                ![self].error = "error",
                                ![self].end_time = TRUE]
        /\ execution_log' = Append(execution_log, LogEntry(heap[self].name, "failed"))
        /\ stack' = Pop
        /\ exc' = stop_on_error
        /\ UNCHANGED <<context, initial_context>>

\* WorkflowNode.execute from the try on, and what _execute_node does with its end
NodeExecute ==
    /\ stack # <<>> /\ Top.pc = "call"
    /\ LET a == FilteredInputs(Top.node, context)
       IN  \E result \in CallFunction(heap[Top.node].function, a) :
              /\ calls' = Append(calls, [node |-> Top.node, args |-> a,
                                         raised |-> (result.kind = "raise"),
                                         result |-> result])
              /\ IF result.kind = "raise" THEN TaskRaises ELSE TaskReturns(result)
    /\ UNCHANGED <<nodes, start_node, status, aliased, stop_on_error, runs, last, added>>

\* the loop over next_nodes runs from the last successor to the first
ExecuteNext_Reverse ==
    /\ stack # <<>> /\ Top.pc = "loop" /\ ~exc
    /\ IF Top.i <= Len(heap[Top.node].next_nodes)
       THEN stack' = Append(SetTop([Top EXCEPT !.i = Top.i + 1]),
                            Frame(heap[Top.node].next_nodes[
                                      Len(heap[Top.node].next_nodes) - Top.i + 1], "enter"))
       ELSE stack' = Pop
    /\ UNCHANGED <<heap, pipelineVars, initial_context, aliased, stop_on_error, exc,
                   calls, runs, last, added>>

\* _execute_node: the loop over next_nodes
ExecuteNext ==
    /\ stack # <<>> /\ Top.pc = "loop" /\ ~exc
    /\ IF Top.i <= Len(heap[Top.node].next_nodes)
       THEN stack' = Append(SetTop([Top EXCEPT !.i = Top.i + 1]),
                            Frame(heap[Top.node].next_nodes[Top.i], "enter"))
       ELSE stack' = Pop
    /\ UNCHANGED <<heap, pipelineVars, initial_context, aliased, stop_on_error, exc,
                   calls, runs, last, added>>

\* _execute_node: the except clause around a recursive call that raised
ExecuteCatch ==
    /\ stack # <<>> /\ Top.pc = "loop" /\ exc
    /\ execution_log' = Append(execution_log, LogEntry(heap[Top.node].name, "failed"))
    /\ stack' = Pop
    /\ exc' = stop_on_error
    /\ UNCHANGED <<heap, nodes, start_node, context, status, initial_context, aliased,
                   stop_on_error, calls, runs, last, added>>

\* execute's except clause lost: the status is 'completed' whatever happened
ExecuteReturn_AlwaysCompleted ==
    /\ stack = <<>> /\ status = "running"
    /\ status' = "completed"
    /\ exc' = FALSE
    /\ UNCHANGED <<heap, nodes, start_node, context, execution_log, initial_context,
                   aliased, stop_on_error, stack, calls, runs, last, added>>

\* Pipeline.execute: after _execute_node on the start node ended
ExecuteReturn ==
    /\ stack = <<>> /\ status = "running"
    /\ status' = IF exc THEN "failed" ELSE "completed"
    /\ exc' = FALSE
    /\ UNCHANGED <<heap, nodes, start_node, context, execution_log, initial_context,
                   aliased, stop_on_error, stack, calls, runs, last, added>>

\* Pipeline.execute: the dictionary it returns
Result ==
    [status |-> status,
     nodes |-> [name \in DOMAIN nodes |-> to_dict(nodes[name])],
     execution_log |-> execution_log,
     final_context |-> context]

\* a line of the rendering: the name with its status suffix at an indent, and
\* the object it was rendered for
Line(node, indent) ==
    [node |-> node, name |-> heap[node].name, indent |-> indent,
     status |-> IF heap[node].status # "pending" THEN heap[node].status ELSE ""]

RECURSIVE _visualize_node(_, _, _, _)
RECURSIVE VisualizeNext(_, _, _, _, _)

\* Pipeline._visualize_node: lines and visited after the call
_visualize_node(node, lines, visited, indent) ==
    IF heap[node].name \in visited
    THEN [lines |-> lines, visited |-> visited]
    ELSE VisualizeNext(node, 1, Append(lines, Line(node, indent)),
                       visited \cup {heap[node].name}, indent)

\* Pipeline._visualize_node: the loop over next_nodes, from its i-th element on
VisualizeNext(node, i, lines, visited, indent) ==
    IF i > Len(heap[node].next_nodes)
    THEN [lines |-> lines, visited |-> visited]
    ELSE LET r == _visualize_node(heap[node].next_nodes[i], lines, visited, indent + 1)
         IN  VisualizeNext(node, i + 1, r.lines, r.visited, indent)

\* Pipeline.visualize: the lines of the flow
visualize ==
    IF start_node = None
    THEN "Empty pipeline"
    ELSE _visualize_node(start_node, <<>>, {}, 0).lines

\* Pipeline.visualize: the text it returns, line by line (names only)
VisualizeText ==
    IF start_node = None
    THEN <<"Empty pipeline">>
    ELSE <<"Flow:">> \o [i \in 1..Len(visualize) |-> visualize[i].name]

\* visualize that also empties the execution log
Visualize_ClearsLog ==
    /\ Idle
    /\ last' = Call("visualize", VisualizeText, "None")
    /\ execution_log' = <<>>
    /\ UNCHANGED <<heap, nodes, start_node, context, status, runVars, added>>

\* pipeline.visualize()
Visualize ==
    /\ Idle
    /\ last' = Call("visualize", VisualizeText, "None")
    /\ UNCHANGED <<heap, pipelineVars, runVars, added>>

RECURSIVE SimplePipeline(_, _)

\* create_simple_pipeline: the pipeline and previous_node (no name yet, or one
\* name) after the first i iterations of the loop over tasks
SimplePipeline(tasks, i) ==
    IF i = 0
    THEN [heap |-> <<>>, nodes |-> EmptyDict, start_node |-> None,
          previous_node |-> <<>>]
    ELSE LET p == SimplePipeline(tasks, i - 1)
             task == tasks[i]
             node == Len(p.heap) + 1
             \* pipeline.add_node(node, is_start=(i == 0))
             added_heap == Append(p.heap,
                                  WorkflowNode(task.name, task.function, task.inputs))
             added_nodes == Update(p.nodes, [k \in {task.name} |-> node])
             added_start == IF i = 1 \/ p.start_node = None THEN node ELSE p.start_node
             \* if previous_node: pipeline.connect(previous_node, node_name)
             truthy == p.previous_node # <<>> /\ p.previous_node[1] # ""
             from_node == added_nodes[p.previous_node[1]]
             to_node == added_nodes[task.name]
         IN  [heap |-> IF truthy /\ to_node \notin Range(added_heap[from_node].next_nodes)
                       THEN [added_heap EXCEPT ![from_node].next_nodes = Append(@, to_node)]
                       ELSE added_heap,
              nodes |-> added_nodes,
              start_node |-> added_start,
              previous_node |-> <<task.name>>]

\* pipeline = create_simple_pipeline(name, tasks)
CreateSimplePipeline(tasks) ==
    LET pipeline == SimplePipeline(tasks, Len(tasks))
    IN  /\ last.op = "init"
        /\ heap' = pipeline.heap
        /\ nodes' = pipeline.nodes
        /\ start_node' = pipeline.start_node
        /\ last' = Call("create_simple_pipeline",
                        [i \in 1..Len(tasks) |-> tasks[i].name], "None")
        /\ added' = IF tasks = <<>> THEN added ELSE [first |-> 1, marked |-> 1]
        /\ UNCHANGED <<context, execution_log, status, runVars>>

Step == ExecuteNodeEnter \/ NodeExecute \/ ExecuteNext \/ ExecuteCatch \/ ExecuteReturn

----------------------------------------------------------------------------
(* The callers. Nodes and edges are added before any execution (the     *)
(* pipeline's lifecycle); the callers differ in the nodes and edges they  *)
(* may add.                                                               *)

Building == status = "ready"

NumEdges == LET Sum[i \in 0..Len(heap)] ==
                    IF i = 0 THEN 0 ELSE Sum[i - 1] + Len(heap[i].next_nodes)
            IN  Sum[Len(heap)]

UsedNames == {heap[o].name : o \in 1..Len(heap)}

Names == <<"A", "B", "C">>

\* the names are interchangeable: a new name is the first one not yet used
CallerNames ==
    {Names[i] : i \in {j \in 1..Len(Names) :
                          Names[j] \in UsedNames \/ j <= Cardinality(UsedNames) + 1}}

\* Any graph over three uniquely named nodes with opaque tasks.
Next ==
    \/ \E n \in CallerNames \ UsedNames, s \in BOOLEAN :
          Building /\ AddNewNode(n, "task", EmptyDict, s)
    \/ \E o \in 1..Len(heap), s \in BOOLEAN : Building /\ AddNode(o, s)
    \/ \E f \in CallerNames, t \in CallerNames :
          Building /\ NumEdges < MaxEdges /\ Connect(f, t)
    \/ \E soe \in BOOLEAN : runs < MaxRuns /\ Execute(EmptyDict, soe)
    \/ Visualize
    \/ Step

Spec == Init /\ [][Next]_vars

\* The same caller, with the thread inside execute running on: a task
\* invocation returns or raises (NodeExecute has an outcome in every state),
\* and the interpreter takes the next step as long as its stack has room.
Run == Len(stack) <= MaxDepth /\ Step

NextLive ==
    \/ \E n \in CallerNames \ UsedNames, s \in BOOLEAN :
          Building /\ AddNewNode(n, "task", EmptyDict, s)
    \/ \E o \in 1..Len(heap), s \in BOOLEAN : Building /\ AddNode(o, s)
    \/ \E f \in CallerNames, t \in CallerNames :
          Building /\ NumEdges < MaxEdges /\ Connect(f, t)
    \/ \E soe \in BOOLEAN : runs < MaxRuns /\ Execute(EmptyDict, soe)
    \/ Run

SpecLive == Init /\ [][NextLive]_vars /\ WF_vars(Run)

\* A caller that adds several nodes under one name.
NextDup ==
    \/ \E n \in CallerNames, s \in BOOLEAN :
          Building /\ Len(heap) < MaxObjs /\ AddNewNode(n, "task", EmptyDict, s)
    \/ \E o \in 1..Len(heap), s \in BOOLEAN : Building /\ AddNode(o, s)
    \/ \E f \in CallerNames, t \in CallerNames :
          Building /\ NumEdges < MaxDupEdges /\ Connect(f, t)
    \/ \E soe \in BOOLEAN : runs < MaxRuns /\ Execute(EmptyDict, soe)
    \/ Step

SpecDup == Init /\ [][NextDup]_vars

\* The nodes of test_basic_pipeline and test_error_handling, in a chain.
XValues == {0, 1, 5}

LinearNodes ==
    {[name |-> "Step1", function |-> "step1", inputs |-> [k \in {"x"} |-> x]] :
        x \in XValues}
    \cup {[name |-> "Step2", function |-> f, inputs |-> EmptyDict] :
        f \in {"step2", "step2_fails"}}
    \cup {[name |-> "Step3", function |-> "step3", inputs |-> EmptyDict]}

LinearEdges == {<<"Step1", "Step2">>, <<"Step2", "Step3">>}

NextLinear ==
    \/ \E d \in LinearNodes, s \in BOOLEAN :
          Building /\ d.name \notin UsedNames
                   /\ AddNewNode(d.name, d.function, d.inputs, s)
    \/ \E e \in LinearEdges : Building /\ Connect(e[1], e[2])
    \/ \E soe \in BOOLEAN : runs < MaxRuns /\ Execute(EmptyDict, soe)
    \/ Step

SpecLinear == Init /\ [][NextLinear]_vars

\* The nodes of test_branching_pipeline: Start -> {BranchA, BranchB} -> Merge.
DiamondNodes ==
    {[name |-> "Start", function |-> "start", inputs |-> [k \in {"value"} |-> v]] :
        v \in {1, 5}}
    \cup {[name |-> "BranchA", function |-> "branch_a", inputs |-> EmptyDict],
          [name |-> "BranchB", function |-> "branch_b", inputs |-> EmptyDict],
          [name |-> "Merge", function |-> "merge", inputs |-> EmptyDict]}

DiamondEdges == {<<"Start", "BranchA">>, <<"Start", "BranchB">>,
                 <<"BranchA", "Merge">>, <<"BranchB", "Merge">>}

NextDiamond ==
    \/ \E d \in DiamondNodes, s \in BOOLEAN :
          Building /\ d.name \notin UsedNames
                   /\ AddNewNode(d.name, d.function, d.inputs, s)
    \/ \E e \in DiamondEdges : Building /\ Connect(e[1], e[2])
    \/ \E soe \in BOOLEAN : runs < MaxRuns /\ Execute(EmptyDict, soe)
    \/ Step

SpecDiamond == Init /\ [][NextDiamond]_vars

\* The nodes of test_parameter_filtering, Step2 also with inputs of its own
\* or with the task of test_basic_pipeline, whose parameter y nothing binds,
\* executed with or without an initial context.
FilterNodes ==
    {[name |-> "Step1", function |-> "test_parameter_filtering.step1",
      inputs |-> EmptyDict],
     [name |-> "Step2", function |-> "step2", inputs |-> EmptyDict]}
    \cup {[name |-> "Step2", function |-> "test_parameter_filtering.step2",
           inputs |-> i] :
            i \in {EmptyDict, [k \in {"a"} |-> 7],
                   [k \in {"b", "c"} |-> IF k = "b" THEN 9 ELSE 0]}}

FilterContexts == {EmptyDict, [k \in {"a", "e"} |-> IF k = "a" THEN 5 ELSE 6]}

NextFilter ==
    \/ \E d \in FilterNodes, s \in BOOLEAN :
          Building /\ d.name \notin UsedNames
                   /\ AddNewNode(d.name, d.function, d.inputs, s)
    \/ Building /\ Connect("Step1", "Step2")
    \/ \E ictx \in FilterContexts, soe \in BOOLEAN :
          runs < MaxRuns /\ Execute(ictx, soe)
    \/ Step

SpecFilter == Init /\ [][NextFilter]_vars

\* A caller whose tasks return a value that is not a dict (None or 7), a
\* dict, or raise.
ReturnNames == {"A", "B"}

NextReturn ==
    \/ \E n \in ReturnNames \ UsedNames, s \in BOOLEAN,
          f \in {"returns_value", "returns_mapping", "task"} :
          Building /\ AddNewNode(n, f, EmptyDict, s)
    \/ \E f \in UsedNames, t \in UsedNames :
          Building /\ NumEdges < MaxEdges /\ Connect(f, t)
    \/ \E soe \in BOOLEAN : runs < MaxRuns /\ Execute(EmptyDict, soe)
    \/ Step

SpecReturn == Init /\ [][NextReturn]_vars

\* A caller of create_simple_pipeline: a list of up to MaxTasks tasks.
SimpleTasks ==
    {[name |-> n, function |-> "task", inputs |-> EmptyDict] : n \in {"", "A", "B"}}

TaskLists(k) == UNION {[1..n -> SimpleTasks] : n \in 0..k}

NextSimple ==
    \/ \E tasks \in TaskLists(MaxTasks) : CreateSimplePipeline(tasks)
    \/ \E soe \in BOOLEAN : runs < MaxRuns /\ Execute(EmptyDict, soe)
    \/ Step

SpecSimple == Init /\ [][NextSimple]_vars

\* A caller that constructs nodes with an empty name or without a task.
ArgNames == {"", "A"}

NextArgs ==
    \/ \E n \in ArgNames \ UsedNames, f \in {"None", "task"}, s \in BOOLEAN :
          Building /\ AddNewNode(n, f, EmptyDict, s)
    \/ \E f \in UsedNames, t \in UsedNames :
          Building /\ NumEdges < MaxEdges /\ Connect(f, t)
    \/ \E soe \in BOOLEAN : runs < MaxRuns /\ Execute(EmptyDict, soe)
    \/ Step

SpecArgs == Init /\ [][NextArgs]_vars

----------------------------------------------------------------------------
(* The properties *)

Objs == 1..Len(heap)

\* execute has returned its result
Returned == stack = <<>> /\ status \in {"completed", "failed"}

\* the task of object o was invoked by the current execute call
Invoked(o) == \E i \in 1..Len(calls) : calls[i].node = o

Successors(o) == Range(heap[o].next_nodes)

DiamondRegistered ==
    /\ {"Start", "BranchA", "BranchB", "Merge"} \subseteq DOMAIN nodes
    /\ start_node = nodes["Start"]
    /\ heap[nodes["BranchA"]].next_nodes = <<nodes["Merge"]>>
    /\ heap[nodes["BranchB"]].next_nodes = <<nodes["Merge"]>>
    /\ heap[nodes["Merge"]].next_nodes = <<>>

\* the diamond of test_branching_pipeline, BranchA connected before BranchB
DiamondBuilt ==
    /\ DiamondRegistered
    /\ heap[nodes["Start"]].next_nodes = <<nodes["BranchA"], nodes["BranchB"]>>

\* the diamond with its two branches connected in either order
DiamondEitherOrder ==
    /\ DiamondRegistered
    /\ Successors(nodes["Start"]) = {nodes["BranchA"], nodes["BranchB"]}

\* C1: on the diamond Start -> {BranchA, BranchB} -> Merge, connected in that
\* order, the first execute call with stop_on_error = true returns status
\* 'completed' and a final context whose 'final' is result_a + result_b, that
\* is (value + 10) + (value * 2), 25 for value 5.
C1_BranchThenMerge ==
    (DiamondBuilt /\ Returned /\ runs = 1 /\ stop_on_error) =>
        LET value == heap[nodes["Start"]].inputs["value"]
        IN  /\ status = "completed"
            /\ "final" \in DOMAIN context
            /\ context["final"] = (value + 10) + (value * 2)
            /\ (value = 5 => context["final"] = 25)

StepNames == <<"Step1", "Step2", "Step3">>

\* Step1 -> ... -> Stepk is what the start node reaches, and no task of it raises
Chain(k) ==
    /\ \A i \in 1..k : StepNames[i] \in DOMAIN nodes
    /\ start_node = nodes["Step1"]
    /\ \A i \in 1..k :
          heap[nodes[StepNames[i]]].next_nodes =
              IF i < k THEN <<nodes[StepNames[i + 1]]>> ELSE <<>>
    /\ \A i \in 1..k : heap[nodes[StepNames[i]]].function # "step2_fails"

\* the composition of the first k transforms x + 1, y * 2, z ^ 2
Composition(k, x) ==
    LET y == x + 1
        z == y * 2
    IN  [key \in (IF k >= 1 THEN {"y"} ELSE {}) \cup (IF k >= 2 THEN {"z"} ELSE {})
                 \cup (IF k >= 3 THEN {"result"} ELSE {}) |->
            CASE key = "y" -> y
              [] key = "z" -> z
              [] key = "result" -> z * z]

\* C2: for a chain Step1 -> ... -> Stepk whose tasks all succeed, each reading
\* the key its predecessor wrote, the first execute call returns 'completed',
\* every node of the chain is 'completed' and the final context is the
\* composition of the k transforms on Step1's input x (144 for x = 5, k = 3).
C2_LinearComposition ==
    \A k \in 1..3 :
        (Chain(k) /\ Returned /\ runs = 1) =>
            LET x == heap[nodes["Step1"]].inputs["x"]
            IN  /\ status = "completed"
                /\ \A i \in 1..k : heap[nodes[StepNames[i]]].status = "completed"
                /\ context = Composition(k, x)
                /\ (k = 3 /\ x = 5 => context["result"] = 144)

C2_Witness ==
    /\ Chain(3) /\ Returned /\ runs = 1
    /\ heap[nodes["Step1"]].inputs["x"] = 5
    /\ "result" \in DOMAIN context /\ context["result"] = 144

\* C3: with stop_on_error = true, no task is invoked after a task failed; when
\* execute returns, the pipeline is 'failed', the failing node is 'failed',
\* every node invoked before it is 'completed' and every other node 'pending'.
C3_StopOnErrorHalts ==
    stop_on_error =>
        \A i \in 1..Len(calls) :
            calls[i].raised =>
                /\ i = Len(calls)
                /\ Returned =>
                      /\ status = "failed"
                      /\ heap[calls[i].node].status = "failed"
                      /\ \A j \in 1..(i - 1) : heap[calls[j].node].status = "completed"
                      /\ \A o \in Objs : ~Invoked(o) => heap[o].status = "pending"

C3_Witness ==
    /\ Returned /\ stop_on_error /\ status = "failed"
    /\ Len(calls) >= 2 /\ calls[Len(calls)].raised
    /\ \E o \in Successors(calls[Len(calls)].node) : heap[o].status = "pending"
    /\ \E j \in 1..(Len(calls) - 1) :
          \E o \in Successors(calls[j].node) :
              o # calls[Len(calls)].node /\ heap[o].status = "pending"

\* C4 as claimed: with stop_on_error = false, after a task failed every
\* other node that is a successor of the failed node and is not completed is
\* invoked.
C4_DescendsIntoSuccessors ==
    (Returned /\ ~stop_on_error) =>
        \A i \in 1..Len(calls) :
            calls[i].raised =>
                \A o \in Successors(calls[i].node) \ {calls[i].node} :
                    \/ heap[o].status = "completed"
                    \/ \E j \in (i + 1)..Len(calls) : calls[j].node = o

\* C4, amended: with stop_on_error = false the failure is swallowed at the
\* failed node (nothing propagates and execute returns 'completed'), the loop
\* over next_nodes runs for completed nodes only, so the failed node's
\* successors are not visited from it, and the traversal goes on with the
\* remaining successors of the callers: every successor of a node completed
\* in this call has been visited when execute returns.
C4_SkipsSuccessorsOfFailed ==
    /\ \A d \in 1..Len(stack) :
          stack[d].pc = "loop" => heap[stack[d].node].status = "completed"
    /\ ~stop_on_error => ~exc
    /\ (Returned /\ ~stop_on_error) =>
          /\ status = "completed"
          /\ \A i \in 1..Len(calls) :
                ~calls[i].raised =>
                    \A o \in Successors(calls[i].node) : heap[o].status # "pending"

C4_Witness ==
    /\ Returned /\ ~stop_on_error /\ status = "completed"
    /\ \E i \in 2..Len(calls) :
          /\ calls[i].raised
          /\ \E o \in Successors(calls[i].node) : heap[o].status = "pending"

\* C5: in the diamond, with the branches connected in either order and for
\* either stop_on_error, one execute call invokes Merge's task exactly once.
C5_FinalNodeOnce ==
    (DiamondEitherOrder /\ Returned /\ runs = 1) =>
        Cardinality({i \in 1..Len(calls) : calls[i].node = nodes["Merge"]}) = 1

\* C6: within one execute call every node's task is invoked at most once; a
\* node whose task failed is not invoked again.
C6_NoRetry ==
    \A i \in 1..Len(calls), j \in 1..Len(calls) :
        calls[i].node = calls[j].node => i = j

\* C7: every execute call resets the nodes and runs the traversal again: when
\* it returns, the start node was invoked by this call and every node that is
\* not 'pending' was invoked by this call.
C7_RerunResets ==
    Returned =>
        /\ Invoked(start_node)
        /\ \A o \in Objs : heap[o].status # "pending" => Invoked(o)

\* C8: after an execute call the log has one entry per task invocation, in
\* order: entry i names the i-th invoked node with that invocation's outcome.
C8_LogOneEntryPerInvocation ==
    Returned =>
        /\ Len(execution_log) = Len(calls)
        /\ \A i \in 1..Len(execution_log) :
              i <= Len(calls) =>
                  /\ execution_log[i].node = heap[calls[i].node].name
                  /\ execution_log[i].status =
                        IF calls[i].raised THEN "failed" ELSE "completed"

\* C9: add_node of a node whose name another registered node has raises a
\* duplicate-name error and leaves nodes and start_node unchanged; no add_node
\* replaces a registered node.
C9_DuplicateNameRejected ==
    [][last'.op = "add_node" =>
          LET name == heap'[last'.args[1]].name
          IN  /\ (name \in DOMAIN nodes /\ nodes[name] # last'.args[1]) =>
                    /\ last'.raised = "DuplicateName"
                    /\ UNCHANGED <<nodes, start_node>>
              /\ \A n \in DOMAIN nodes : n \in DOMAIN nodes' /\ nodes'[n] = nodes[n]]_vars

\* C10: connect(from, to) raises ValueError when either name is not
\* registered, and then no successor list changes; with both registered it
\* adds the edge from -> to to from's successors and changes nothing else.
C10_ConnectUnknownNode ==
    [][last'.op = "connect" =>
          LET from_node == last'.args[1]
              to_node == last'.args[2]
          IN  /\ IF from_node \notin DOMAIN nodes \/ to_node \notin DOMAIN nodes
                 THEN /\ last'.raised = "ValueError"
                      /\ UNCHANGED heap
                 ELSE /\ last'.raised = "None"
                      /\ nodes[to_node] \in Range(heap'[nodes[from_node]].next_nodes)
                      /\ \A o \in Objs \ {nodes[from_node]} : heap'[o] = heap[o]
              /\ UNCHANGED pipelineVars]_vars

C10_Witness ==
    /\ last.op = "connect" /\ last.raised = "ValueError"
    /\ NumEdges >= 1

\* C11: constructing a node with an empty name or without a task raises an
\* invalid-argument error, so no node object has an empty name or no task,
\* none is registered in the pipeline and none is ever invoked.
C11_InvalidNodeRejected ==
    /\ \A o \in Objs : heap[o].name # "" /\ heap[o].function # "None"
    /\ "" \notin DOMAIN nodes
    /\ \A i \in 1..Len(calls) : heap[calls[i].node].function # "None"

\* C12: execute on a pipeline without a start node raises ValueError (no
\* start node) and changes nothing: status, context, log, nodes and the
\* record of task invocations are as before the call.
C12_NoStartNode ==
    [][(start_node = None /\ last'.op = "execute") =>
          /\ last'.raised = "ValueError"
          /\ UNCHANGED <<heap, pipelineVars, runVars>>]_vars

C12_Witness ==
    /\ start_node = None /\ last.op = "execute" /\ last.raised = "ValueError"
    /\ status = "ready" /\ context = EmptyDict /\ execution_log = <<>>

\* C13: after any sequence of add_node calls the start node is the node of
\* the most recent call with is_start = true or, when there was none, the
\* node of the first call; a call with is_start = false leaves a start node
\* that is set as it is.
C13_StartNodeDesignation ==
    [][/\ start_node' = IF added'.marked # None THEN added'.marked ELSE added'.first
       /\ (last'.op = "add_node" /\ ~last'.args[2] /\ start_node # None) =>
              start_node' = start_node]_vars

C13_Witness ==
    /\ last.op = "add_node" /\ ~last.args[2]
    /\ added.marked # None /\ added.marked # added.first
    /\ last.args[1] # added.marked
    /\ start_node = added.marked

\* the call appended to the record of task invocations by this step
NewCall == calls'[Len(calls')]

\* the declared parameters of the task of object o
Declared(o) == Range(Parameters(heap[o].function))

\* C14: a task is invoked with exactly the keys of the context overlaid with
\* the node's inputs that are declared parameters of the task, each with its
\* value from one of the two; keys that the task does not declare are not
\* passed and do not make the call fail: a task of test_parameter_filtering
\* fails only when one of its declared parameters is missing.
C14_ParameterFiltering ==
    [][Len(calls') = Len(calls) + 1 =>
          LET self == NewCall.node
              inputs == heap[self].inputs
          IN  /\ DOMAIN NewCall.args =
                    ((DOMAIN context) \cup (DOMAIN inputs)) \cap Declared(self)
              /\ \A k \in DOMAIN NewCall.args :
                    \/ k \in DOMAIN context /\ NewCall.args[k] = context[k]
                    \/ k \in DOMAIN inputs /\ NewCall.args[k] = inputs[k]
              /\ NewCall.raised <=>
                    ~(Declared(self) \subseteq (DOMAIN context) \cup (DOMAIN inputs))]_vars

C14_Witness ==
    \E i \in 1..Len(calls) :
        /\ heap[calls[i].node].name = "Step2" /\ ~calls[i].raised
        /\ calls[i].args = [k \in {"a", "b"} |-> IF k = "a" THEN 1 ELSE 2]
        /\ {"c", "d"} \subseteq DOMAIN context
        /\ "result" \in DOMAIN context /\ context["result"] = 3

\* C15: a key that is both in the context and in the node's inputs reaches
\* the task with the value of the node's inputs.
C15_StaticInputsWin ==
    [][Len(calls') = Len(calls) + 1 =>
          LET inputs == heap[NewCall.node].inputs
          IN  \A k \in (DOMAIN inputs) \cap Declared(NewCall.node) :
                  /\ k \in DOMAIN NewCall.args
                  /\ NewCall.args[k] = inputs[k]]_vars

C15_Witness ==
    \E i \in 1..Len(calls) :
        /\ Len(calls) = i /\ i >= 2
        /\ "a" \in DOMAIN heap[calls[i].node].inputs
        /\ "a" \in DOMAIN context /\ context["a"] = 1
        /\ calls[i].args["a"] = 7
        /\ "result" \in DOMAIN context /\ context["result"] = 9

\* C16: the pipeline is 'running' as long as the traversal goes on, and the
\* status execute returns with is 'failed' exactly when stop_on_error is
\* true and a task invoked by this call failed, 'completed' otherwise (also
\* when tasks failed with stop_on_error false); it is never 'ready' or
\* 'running'.
C16_StatusMirrorsPropagation ==
    [][/\ stack' # <<>> => status' = "running"
       /\ (status = "running" /\ status' # "running") =>
              status' = IF stop_on_error /\ \E i \in 1..Len(calls) : calls[i].raised
                        THEN "failed" ELSE "completed"]_vars

C16_Witness ==
    /\ stack = <<>> /\ status = "completed" /\ ~stop_on_error
    /\ \E i \in 1..Len(calls) : calls[i].raised /\ heap[calls[i].node].status = "failed"
    /\ \E i \in 1..Len(calls) : ~calls[i].raised

\* C17: the result of execute has a snapshot of every registered node, and a
\* node whose task this call did not invoke is 'pending' in it, with no
\* error, no outputs and no execution time.
C17_UnreachedPending ==
    Returned =>
        /\ DOMAIN Result.nodes = DOMAIN nodes
        /\ \A name \in DOMAIN nodes :
              ~Invoked(nodes[name]) =>
                  /\ Result.nodes[name].status = "pending"
                  /\ Result.nodes[name].error = "None"
                  /\ Result.nodes[name].outputs = EmptyDict
                  /\ Result.nodes[name].execution_time = "None"

\* C18: a node's status changes only from 'pending' to 'running' and from
\* 'running' to 'completed' or 'failed'; a node that is 'completed' or
\* 'failed' stays so, and no node is 'running' when execute has returned.
C18_NodeStatusMachine ==
    [][/\ \A o \in Objs :
             heap'[o].status # heap[o].status =>
                 <<heap[o].status, heap'[o].status>> \in
                     {<<"pending", "running">>, <<"running", "completed">>,
                      <<"running", "failed">>}
       /\ (stack' = <<>> /\ status' # "running") =>
              \A o \in 1..Len(heap') : heap'[o].status # "running"]_vars

IsPrefix(s, t) == Len(s) <= Len(t) /\ SubSeq(t, 1, Len(s)) = s

\* C19: no successor list holds the same node twice; a connect of registered
\* nodes appends the successor when it is not yet in the list and leaves the
\* list as it is otherwise; no step removes or reorders successors, so they
\* stand in the order of their first connection.
C19_SuccessorSet ==
    [][/\ \A o \in 1..Len(heap') :
             \A i \in 1..Len(heap'[o].next_nodes), j \in 1..Len(heap'[o].next_nodes) :
                 heap'[o].next_nodes[i] = heap'[o].next_nodes[j] => i = j
       /\ \A o \in Objs : IsPrefix(heap[o].next_nodes, heap'[o].next_nodes)
       /\ (last'.op = "connect" /\ last'.raised = "None") =>
              LET from_node == nodes[last'.args[1]]
                  to_node == nodes[last'.args[2]]
              IN  heap'[from_node].next_nodes =
                      IF to_node \in Successors(from_node)
                      THEN heap[from_node].next_nodes
                      ELSE Append(heap[from_node].next_nodes, to_node)]_vars

\* the last connect named a successor that was already first in a longer list
C19_Witness ==
    /\ last.op = "connect" /\ last.raised = "None"
    /\ Len(heap[nodes[last.args[1]]].next_nodes) >= 2
    /\ heap[nodes[last.args[1]]].next_nodes[1] = nodes[last.args[2]]

RECURSIVE ReachableFrom(_)
ReachableFrom(S) ==
    LET T == S \cup UNION {Successors(o) : o \in S}
    IN  IF T = S THEN S ELSE ReachableFrom(T)

\* C20: visualize ends on every graph and renders the nodes reachable from
\* the start node, each exactly once and no other; the first line is the
\* start node at depth 0 and every later line is a successor of the nearest
\* line above it that is less deep, one level deeper than it (the place of
\* its first depth-first visit).
C20_VisualizeReachableOnce ==
    start_node # None =>
        LET lines == visualize
        IN  /\ {lines[i].node : i \in 1..Len(lines)} = ReachableFrom({start_node})
            /\ \A i \in 1..Len(lines), j \in 1..Len(lines) :
                  lines[i].node = lines[j].node => i = j
            /\ lines[1].node = start_node /\ lines[1].indent = 0
            /\ \A i \in 2..Len(lines) :
                  \E j \in 1..(i - 1) :
                      /\ lines[j].indent = lines[i].indent - 1
                      /\ lines[i].node \in Successors(lines[j].node)
                      /\ \A k \in (j + 1)..(i - 1) : lines[k].indent >= lines[i].indent

\* C21: visualize changes nothing: nodes, edges, start node, every node's
\* fields, context, log and pipeline status are as before the call, in any
\* state; it raises nothing, and without a start node it returns the
\* 'Empty pipeline' text.
C21_VisualizeReadOnly ==
    [][last'.op = "visualize" =>
          /\ UNCHANGED <<heap, pipelineVars, runVars>>
          /\ last'.raised = "None"
          /\ (start_node = None <=> last'.args = <<"Empty pipeline">>)]_vars

\* visualize was called after an execution that left a failed node and a log
C21_Witness ==
    /\ last.op = "visualize" /\ status = "failed" /\ execution_log # <<>>
    /\ Len(last.args) >= 3

\* the traversal has just reached a node that is already 'completed'
ReachedCompleted ==
    stack # <<>> /\ Top.pc = "enter" /\ heap[Top.node].status = "completed"

\* C22 as claimed: when the traversal reaches a completed node that has a
\* successor which is not completed, its task is not invoked and the
\* traversal goes on with the node's successors.
C22_SkipAndDescend ==
    [][(ReachedCompleted
          /\ \E s \in Successors(Top.node) : heap[s].status # "completed") =>
          /\ calls' = calls
          /\ Len(stack') = Len(stack)
          /\ stack'[Len(stack')] = [Top EXCEPT !.pc = "loop"]]_vars

\* C22, amended: when the traversal reaches a completed node, the call of
\* _execute_node returns at once: the task is not invoked, no successor is
\* visited from this visit, and nodes, context and log are unchanged.
C22_SkipWithoutDescent ==
    [][ReachedCompleted =>
          /\ stack' = Pop
          /\ UNCHANGED <<heap, pipelineVars, calls, exc>>]_vars

\* the number of times the traversal of the first execute call, made with
\* stop_on_error = false, has reached node o when it returns
TimesReached(o) ==
    (IF o = start_node THEN 1 ELSE 0)
    + Cardinality({i \in 1..Len(calls) :
                      ~calls[i].raised /\ o \in Successors(calls[i].node)})

\* a completed node was reached twice and invoked once, and its failed
\* successor was invoked once
C22_Witness ==
    /\ Returned /\ runs = 1 /\ ~stop_on_error
    /\ \E o \in Objs :
          /\ heap[o].status = "completed" /\ TimesReached(o) >= 2
          /\ Cardinality({i \in 1..Len(calls) : calls[i].node = o}) = 1
          /\ \E s \in Successors(o) :
                /\ heap[s].status = "failed"
                /\ Cardinality({i \in 1..Len(calls) : calls[i].node = s}) = 1

\* C23: in the diamond with BranchA connected before BranchB, every
\* invocation of Merge's task comes before any invocation of BranchB's task
\* and receives nothing that BranchB wrote: no result_b among its inputs.
C23_NoJoin ==
    DiamondBuilt =>
        \A i \in 1..Len(calls) :
            calls[i].node = nodes["Merge"] =>
                /\ \A j \in 1..(i - 1) : calls[j].node # nodes["BranchB"]
                /\ "result_b" \notin DOMAIN calls[i].args

RECURSIVE PreOrder(_, _)
RECURSIVE PreOrderNext(_, _, _)

\* the depth-first pre-order from node, given the nodes seen so far
PreOrder(node, seen) ==
    IF node \in Range(seen) THEN seen ELSE PreOrderNext(node, 1, Append(seen, node))

PreOrderNext(node, i, seen) ==
    IF i > Len(heap[node].next_nodes)
    THEN seen
    ELSE PreOrderNext(node, i + 1, PreOrder(heap[node].next_nodes[i], seen))

\* C24: when every task of the first execute call succeeded, the log is the
\* depth-first pre-order from the start node, successors taken in the order
\* of their connection: one 'completed' entry for every reachable node.
C24_TraversalOrder ==
    (Returned /\ runs = 1 /\ \A i \in 1..Len(calls) : ~calls[i].raised) =>
        LET order == PreOrder(start_node, <<>>)
        IN  /\ Range(order) = ReachableFrom({start_node})
            /\ execution_log =
                  [i \in 1..Len(order) |-> LogEntry(heap[order[i]].name, "completed")]

\* three nodes ran: the start node, its first successor, and its second
\* successor, reached first through the first one
C24_Witness ==
    /\ Returned /\ runs = 1 /\ \A i \in 1..Len(calls) : ~calls[i].raised
    /\ Len(execution_log) = 3
    /\ Len(heap[start_node].next_nodes) = 2
    /\ heap[start_node].next_nodes[1] # start_node
    /\ heap[start_node].next_nodes[2] \in Successors(heap[start_node].next_nodes[1])
    /\ execution_log[2].node = heap[heap[start_node].next_nodes[1]].name
    /\ execution_log[3].node = heap[heap[start_node].next_nodes[2]].name

\* every key of the context is a key of the caller's initial context or an
\* output key of a node that completed during the current execute call
ContextKeysOfThisRun ==
    DOMAIN context \subseteq
        (DOMAIN initial_context)
        \cup UNION {DOMAIN heap[calls[i].node].outputs :
                       i \in {j \in 1..Len(calls) : ~calls[j].raised}}

\* C25: an execute call starts with the context equal to the caller's initial
\* context and with an empty log; during the call the log only grows and the
\* context changes only by the output keys of a node that completes, so the
\* log holds only entries of this call and every key of the context is a key
\* of the initial context or an output key of a node completed in this call.
C25_PerRunReset ==
    [][/\ runs' = runs + 1 =>
              execution_log' = <<>> /\ context' = initial_context' /\ calls' = <<>>
       /\ runs' = runs =>
              /\ IsPrefix(execution_log, execution_log')
              /\ Len(execution_log') >= Len(calls')
              /\ \/ context' = context
                 \/ /\ Len(calls') = Len(calls) + 1 /\ ~NewCall.raised
                    /\ DOMAIN context' =
                          (DOMAIN context) \cup (DOMAIN heap'[NewCall.node].outputs)
       /\ ContextKeysOfThisRun']_vars

\* a second execute call returned without the key 'result' that a node
\* completed by the first call had written, and with an empty log
C25_Witness ==
    /\ Returned /\ runs = 2 /\ execution_log = <<>>
    /\ "result" \notin DOMAIN context
    /\ \E o \in Objs :
          heap[o].status = "completed" /\ "result" \in DOMAIN heap[o].outputs

\* C26: when a task returns, the context afterwards has every output key of
\* the node with the node's output value and every other key as before, and
\* this is so before the loop over the node's successors has begun.
C26_LastWriterWins ==
    [][(Len(calls') = Len(calls) + 1 /\ ~NewCall.raised) =>
          LET outputs == heap'[NewCall.node].outputs
          IN  /\ DOMAIN context' = (DOMAIN context) \cup (DOMAIN outputs)
              /\ \A k \in DOMAIN context' :
                    context'[k] = IF k \in DOMAIN outputs THEN outputs[k] ELSE context[k]
              /\ stack'[Len(stack')] = Frame(NewCall.node, "loop")]_vars

\* Step1 overwrote the a = 5 of the initial context and left its e = 6
C26_Witness ==
    /\ \E i \in 1..Len(calls) :
          ~calls[i].raised /\ heap[calls[i].node].name = "Step1"
    /\ {"a", "e"} \subseteq DOMAIN context
    /\ context["a"] = 1 /\ context["e"] = 6

\* C27: when a task fails, the context (and the caller's initial context) is
\* what it was before the invocation, whatever stop_on_error, the node's
\* outputs are not changed and the node is 'failed'.
C27_FailureLeavesContext ==
    [][(Len(calls') = Len(calls) + 1 /\ NewCall.raised) =>
          /\ context' = context
          /\ initial_context' = initial_context
          /\ heap'[NewCall.node].outputs = heap[NewCall.node].outputs
          /\ heap'[NewCall.node].status = "failed"]_vars

\* Step2's task failed after Step1 had written y
C27_Witness ==
    /\ Len(calls) >= 2 /\ calls[Len(calls)].raised
    /\ heap[calls[Len(calls)].node].function = "step2_fails"
    /\ heap[calls[Len(calls)].node].outputs = EmptyDict
    /\ DOMAIN context = {"y"}

\* C28: an invocation of a task with a declared parameter that neither the
\* context nor the node's inputs bind fails: the node becomes 'failed' with
\* its error set, a 'failed' entry for the node is appended to the log and
\* the context is unchanged.
C28_UnboundParameterFails ==
    [][(/\ Len(calls') = Len(calls) + 1
        /\ ~(Declared(NewCall.node) \subseteq
                (DOMAIN context) \cup (DOMAIN heap[NewCall.node].inputs))) =>
          /\ NewCall.raised
          /\ heap'[NewCall.node].status = "failed"
          /\ heap'[NewCall.node].error # "None"
          /\ execution_log' =
                Append(execution_log, LogEntry(heap[NewCall.node].name, "failed"))
          /\ context' = context]_vars

\* Step2, whose task needs y, failed after Step1 had written a, b, c and d
C28_Witness ==
    /\ Len(calls) = 2 /\ calls[2].raised
    /\ heap[calls[2].node].function = "step2"
    /\ "y" \notin DOMAIN context /\ "a" \in DOMAIN context
    /\ heap[calls[2].node].status = "failed"
    /\ execution_log[Len(execution_log)] = LogEntry("Step2", "failed")

\* C29: in every reachable state a node that is 'pending' or 'completed' has
\* no error recorded.
C29_ErrorOnlyWhenFailed ==
    \A o \in Objs :
        heap[o].status \in {"pending", "completed"} => heap[o].error = "None"

\* C30: when a task returns a dict, the node's outputs are that dict; when
\* it returns anything else, None included, the outputs are the one-entry
\* dict {"result": value}; the outputs are what is merged into the context.
C30_ReturnValueCoercion ==
    [][(Len(calls') = Len(calls) + 1 /\ ~NewCall.raised) =>
          LET returned == NewCall.result
              outputs == heap'[NewCall.node].outputs
          IN  /\ returned.kind = "dict" => outputs = returned.dict
              /\ returned.kind = "other" =>
                    /\ DOMAIN outputs = {"result"}
                    /\ outputs["result"] = returned.other
              /\ \A k \in DOMAIN outputs :
                    k \in DOMAIN context' /\ context'[k] = outputs[k]]_vars

\* a task returned None after another had returned the dict {"k": 1}
C30_Witness ==
    /\ Len(calls) = 2
    /\ calls[1].result = ReturnDict([k \in {"k"} |-> 1])
    /\ calls[2].result = ReturnOther(None)
    /\ context = [k \in {"k", "result"} |-> IF k = "k" THEN 1 ELSE None]

\* the pipeline was made by create_simple_pipeline from pairwise distinct names
SimpleDistinct ==
    /\ last.op \in {"create_simple_pipeline", "execute"}
    /\ Len(heap) >= 1
    /\ \A i \in Objs, j \in Objs : heap[i].name = heap[j].name => i = j

\* C31: for tasks t1..tk with pairwise distinct names, create_simple_pipeline
\* registers exactly the k nodes, the i-th under the name of ti, the start
\* node is t1, the successors of ti are [t(i+1)] and those of tk are empty,
\* and a first execute call in which every task succeeds invokes t1..tk in
\* this order.
C31_SimplePipelineChain ==
    SimpleDistinct =>
        /\ DOMAIN nodes = {heap[o].name : o \in Objs}
        /\ \A o \in Objs : nodes[heap[o].name] = o
        /\ start_node = 1
        /\ \A o \in Objs :
              heap[o].next_nodes = IF o < Len(heap) THEN <<o + 1>> ELSE <<>>
        /\ (Returned /\ runs = 1 /\ \A i \in 1..Len(calls) : ~calls[i].raised) =>
              /\ Len(calls) = Len(heap)
              /\ \A i \in 1..Len(calls) : calls[i].node = i

\* C32: execute terminates on every finite graph, cycles and self-loops
\* included, for either stop_on_error and whatever the tasks do: the
\* recursion never gets deeper than the number of nodes plus one, and every
\* execute call that started returns.
C32_ExecuteTerminates ==
    /\ [](Len(stack) <= Len(heap) + 1)
    /\ (status = "running") ~> (status # "running")

\* an execute call returned on a graph with a cycle through two invoked nodes
\* and a self-loop
C32_Witness ==
    /\ Returned
    /\ \E a \in Objs, b \in Objs :
          /\ a # b
          /\ b \in Successors(a) /\ a \in Successors(b)
          /\ Invoked(a) /\ Invoked(b)
    /\ \E o \in Objs : o \in Successors(o) /\ Invoked(o)

\* C33: whatever add_node calls were made, reused names included, a start node
\* that is set is the node stored in nodes under its own name, so the root of
\* the traversal is one of the nodes the result reports.
C33_StartNodeRegistered ==
    start_node # None =>
        /\ heap[start_node].name \in DOMAIN nodes
        /\ nodes[heap[start_node].name] = start_node

\* C34: static inputs never leak into the shared context. No step changes
\* the static inputs of a node; an invocation that succeeds adds to the
\* context the keys of the task's outputs and nothing else, so a static-input
\* key the task does not return is in the context afterwards only if it was
\* before, with the value it had; an invocation that fails leaves the context
\* as it was.
C34_StaticInputsStayLocal ==
    [][/\ \A o \in Objs : heap'[o].inputs = heap[o].inputs
       /\ Len(calls') = Len(calls) + 1 =>
             LET self == NewCall.node
                 outputs == Outputs(NewCall.result)
             IN  IF NewCall.raised
                 THEN context' = context
                 ELSE /\ DOMAIN context' = DOMAIN context \cup DOMAIN outputs
                      /\ \A k \in DOMAIN context' :
                            context'[k] = IF k \in DOMAIN outputs
                                          THEN outputs[k] ELSE context[k]
                      /\ \A k \in DOMAIN heap[self].inputs \ DOMAIN outputs :
                            /\ k \in DOMAIN context' <=> k \in DOMAIN context
                            /\ k \in DOMAIN context => context'[k] = context[k]]_vars

\* a node with static inputs ran and returned a result computed from them,
\* and a static-input key it did not return is not in the context
C34_Witness ==
    \E i \in 1..Len(calls) :
        LET self == calls[i].node
        IN  /\ ~calls[i].raised
            /\ heap[self].outputs # EmptyDict
            /\ DOMAIN heap[self].outputs \subseteq DOMAIN context
            /\ \E k \in DOMAIN heap[self].inputs :
                  /\ k \in DOMAIN calls[i].args
                  /\ k \notin DOMAIN context

\* C35: execute does not modify the mapping the caller passed as initial
\* context, empty or not: from the call of execute to its return the caller's
\* mapping keeps the keys and values it had, and the outputs of the nodes go
\* to the pipeline's own context only.
C35_InitialContextUntouched ==
    [][status = "running" => initial_context' = initial_context]_vars

====
